---- MODULE Spec2Model ----
(***************************************************************************)
(* State-machine model of app.py: a Flask API over two SQLite tables       *)
(* (users, ventes) with registration, login issuing a 24 h JWT, a          *)
(* token_required decorator and five CRUD routes on ventes.                *)
(*                                                                         *)
(* Text is modelled as a sequence of one-character strings so that len()   *)
(* and the character classes of the regular expression are computed.       *)
(* Time is an integer number of ticks, TicksPerSec ticks to the second:    *)
(* datetime.utcnow() is the tick, SQLite's CURRENT_TIMESTAMP and the JWT   *)
(* "exp" claim are whole seconds.                                          *)
(* Requests are those the rate limiter (flask_limiter) lets through.       *)
(***************************************************************************)
EXTENDS Integers, Sequences, FiniteSets

VARIABLES
    users,      \* rows of table users
    userSeq,    \* AUTOINCREMENT high-water mark of users.id
    ventes,     \* rows of table ventes
    venteSeq,   \* AUTOINCREMENT high-water mark of ventes.numProduit
    now,        \* the system clock, in ticks
    issued,     \* history: the tokens login has returned, with their issue tick
    pc,         \* per client: the request that is between its SELECT and its INSERT
    req,        \* per client: the last HTTP request it sent
    resp        \* per client: the last HTTP response it received

vars == <<users, userSeq, ventes, venteSeq, now, issued, pc, req, resp>>

----------------------------------------------------------------------------
(* Bounds of the model *)

TicksPerSec == 2    \* clock resolution: ticks per second
NearSecs == 2       \* the clock is explored this many seconds past each whole day
MaxDays == 1        \* whole days the clock may advance
MaxUsers == 2       \* rows ever inserted into users
MaxVentes == 2      \* rows ever inserted into ventes
MaxTokens == 1      \* tokens login may issue
MaxClients == 2     \* concurrent clients

(* Program constants *)

TokenHours == 24
MaxDesignLen == 100
MinUsernameLen == 3
MaxUsernameLen == 20
MinPasswordLen == 8

SecondsPerHour == 60 * 60
TokenLifetime == TokenHours * SecondsPerHour      \* timedelta(hours=24), in seconds
DayTicks == TokenLifetime * TicksPerSec

Clients == 1..MaxClients

----------------------------------------------------------------------------
(* Text *)

Digits == {"0", "1", "2", "3", "4", "5", "6", "7", "8", "9"}

Lower ==
    {"a", "b", "c", "d", "e", "f", "g", "h", "i", "j", "k", "l", "m",
     "n", "o", "p", "q", "r", "s", "t", "u", "v", "w", "x", "y", "z"}

Upper ==
    {"A", "B", "C", "D", "E", "F", "G", "H", "I", "J", "K", "L", "M",
     "N", "O", "P", "Q", "R", "S", "T", "U", "V", "W", "X", "Y", "Z"}

\* the class [a-zA-Z0-9_]
WordChars == Lower \cup Upper \cup Digits \cup {"_"}

DigitValue(c) ==
    CASE c = "0" -> 0 [] c = "1" -> 1 [] c = "2" -> 2 [] c = "3" -> 3
      [] c = "4" -> 4 [] c = "5" -> 5 [] c = "6" -> 6 [] c = "7" -> 7
      [] c = "8" -> 8 [] c = "9" -> 9

IsDigits(s) == Len(s) > 0 /\ \A i \in 1..Len(s) : s[i] \in Digits

RECURSIVE DecValue(_)
DecValue(s) ==
    IF Len(s) = 0 THEN 0
    ELSE 10 * DecValue(SubSeq(s, 1, Len(s) - 1)) + DigitValue(s[Len(s)])

\* re.match(r'^[a-zA-Z0-9_]{3,20}$', username): "$" also matches just before
\* one trailing newline.
UsernameOK(u) ==
    LET core == IF Len(u) > 0 /\ u[Len(u)] = "\n"
                THEN SubSeq(u, 1, Len(u) - 1) ELSE u
    IN  /\ Len(core) >= MinUsernameLen
        /\ Len(core) <= MaxUsernameLen
        /\ \A i \in 1..Len(core) : core[i] \in WordChars

----------------------------------------------------------------------------
(* Responses *)

MsgTokenManquant == "Token manquant!"
MsgTokenInvalide == "Token invalide!"
MsgIncomplete == "Donnees incompletes!"
MsgBadUsername == "Le nom d'utilisateur doit contenir entre 3 et 20 caracteres alphanumeriques ou _"
MsgBadPassword == "Le mot de passe doit contenir au moins 8 caracteres"
MsgUserExists == "Utilisateur deja existant!"
MsgUserCreated == "Utilisateur cree avec succes!"
MsgAuthRequired == "Authentification requise!"
MsgBadCredentials == "Identifiants incorrects!"
MsgInternal == "Erreur interne du serveur!"

NoToken == [kind |-> "none", sig |-> "", user_id |-> 0, exp |-> 0]

\* A response: the route, the status, the message, the "errors" list of a
\* validation failure, the token of a login response, and whether the route's
\* handler body ran (token_required let the request through; always TRUE on
\* the two routes it does not guard).
Response(op, status, msg, ran) ==
    [op |-> op, status |-> status, msg |-> msg, errors |-> <<>>,
     token |-> NoToken, ran |-> ran]

NoResponse == Response("none", 0, "", FALSE)

\* errorhandler(500): an exception that leaves the handler
InternalError(op) == Response(op, 500, MsgInternal, TRUE)

Idle ==
    [st |-> "idle", username |-> <<>>, hash |-> <<>>,
     design |-> <<>>, prix |-> <<>>, quantite |-> <<>>]

----------------------------------------------------------------------------
(* Database helpers on table users *)

\* query_db('SELECT * FROM users WHERE username = ?', one=True): rows or none
UsersByName(us, username) == {row \in us : row.username = username}

\* query_db('SELECT * FROM users WHERE id = ?', one=True)
UsersById(us, id) == {row \in us : row.id = id}

\* The mutated INSERT: a table without the UNIQUE constraint on username.
InsertUserNoUnique(us, seq, username, hash) ==
    [ok |-> TRUE,
     users |-> us \cup {[id |-> seq + 1, username |-> username,
                         password |-> hash, role |-> "user"]},
     seq |-> seq + 1]

\* execute_db('INSERT INTO users ...') against "username TEXT UNIQUE NOT NULL":
\* a duplicate raises sqlite3.IntegrityError and inserts nothing.
InsertUser(us, seq, username, hash) ==
    IF UsersByName(us, username) # {}
    THEN [ok |-> FALSE, users |-> us, seq |-> seq]
    ELSE [ok |-> TRUE,
          users |-> us \cup {[id |-> seq + 1, username |-> username,
                              password |-> hash, role |-> "user"]},
          seq |-> seq + 1]

----------------------------------------------------------------------------
(* Password hashing (werkzeug): a salted hash is the pair of its salt and    *)
(* the password it was made from; verification compares the password.      *)

Salts == {"s1", "s2"}

generate_password_hash(password, salt) == <<salt, password>>

check_password_hash(hash, password) == hash[2] = password

----------------------------------------------------------------------------
(* Tokens (PyJWT, HS256 with SECRET_KEY) *)

\* jwt.encode({'user_id': id, 'exp': utcnow() + 24 h}): "exp" is encoded as
\* whole seconds (the sub-second part of utcnow() is dropped).
JwtEncode(user_id, tick) ==
    [kind |-> "jwt", sig |-> "good", user_id |-> user_id,
     exp |-> (tick \div TicksPerSec) + TokenLifetime]

\* Whether jwt.decode raises ExpiredSignatureError. Within the second that
\* equals "exp" the comparison differs between PyJWT releases (exp < now or
\* exp <= now): atExp is the release's answer there.
Expired(exp, tick, atExp) ==
    LET sec == tick \div TicksPerSec
    IN  IF sec > exp THEN TRUE
        ELSE IF sec < exp THEN FALSE
        ELSE atExp

\* The mutated decode: no expiry validation.
JwtDecodeNoExp(tok, tick, atExp) ==
    IF tok.kind # "jwt" \/ tok.sig # "good"
    THEN [ok |-> FALSE, user_id |-> 0]
    ELSE [ok |-> TRUE, user_id |-> tok.user_id]

\* jwt.decode(token, SECRET_KEY, algorithms=["HS256"]): fails on a malformed
\* token, a bad signature or an elapsed "exp".
JwtDecode(tok, tick, atExp) ==
    IF tok.kind # "jwt" \/ tok.sig # "good" \/ Expired(tok.exp, tick, atExp)
    THEN [ok |-> FALSE, user_id |-> 0]
    ELSE [ok |-> TRUE, user_id |-> tok.user_id]

\* An Authorization header: absent, of another scheme, or "Bearer <token>"
\* (the token possibly the empty string).
NoHeader == [scheme |-> "none", token |-> NoToken]
Bearer(tok) == [scheme |-> "Bearer", token |-> tok]

\* token_required: the decorator's decision for one request. current_user is
\* the row query_db(..., one=True) returned, or {} for its None.
TokenRequired(op, hdr, us, tick, atExp) ==
    LET token == IF hdr.scheme = "Bearer" THEN hdr.token ELSE NoToken
        data == JwtDecode(token, tick, atExp)
    IN  IF token.kind = "none"
        THEN [pass |-> FALSE, resp |-> Response(op, 401, MsgTokenManquant, FALSE),
              current_user |-> {}]
        ELSE IF ~data.ok
        THEN [pass |-> FALSE, resp |-> Response(op, 401, MsgTokenInvalide, FALSE),
              current_user |-> {}]
        ELSE [pass |-> TRUE, resp |-> NoResponse,
              current_user |-> UsersById(us, data.user_id)]

----------------------------------------------------------------------------
(* JSON values of a request body and cells of a table row.                 *)
(* k is the Python type: "absent" (key not in the body), "null" (None),    *)
(* "int", "real" (a float, n in tenths: n = 25 is 2.5) or "str".           *)

Absent == [k |-> "absent", n |-> 0, s |-> <<>>]
Null == [k |-> "null", n |-> 0, s |-> <<>>]
JInt(i) == [k |-> "int", n |-> i, s |-> <<>>]
JReal(tenths) == [k |-> "real", n |-> tenths, s |-> <<>>]
JStr(s) == [k |-> "str", n |-> 0, s |-> s]

\* data.get(key): None when the key is absent
Get(v) == IF v.k = "absent" THEN Null ELSE v

\* data.get(key, default)
GetOr(v, default) == IF v.k = "absent" THEN default ELSE v

\* Python truth value
Truthy(v) ==
    CASE v.k = "int" -> v.n # 0
      [] v.k = "real" -> v.n # 0
      [] v.k = "str" -> Len(v.s) > 0
      [] OTHER -> FALSE

NaNText == <<"n", "a", "n">>

\* float(x): ok = FALSE for ValueError/TypeError, else the value in tenths,
\* or nan. Text is digits-only or "nan" in the inputs explored.
PyFloat(v) ==
    CASE v.k = "int" -> [ok |-> TRUE, nan |-> FALSE, t |-> 10 * v.n]
      [] v.k = "real" -> [ok |-> TRUE, nan |-> FALSE, t |-> v.n]
      [] v.k = "str" /\ IsDigits(v.s) ->
            [ok |-> TRUE, nan |-> FALSE, t |-> 10 * DecValue(v.s)]
      [] v.k = "str" /\ v.s = NaNText -> [ok |-> TRUE, nan |-> TRUE, t |-> 0]
      [] OTHER -> [ok |-> FALSE, nan |-> FALSE, t |-> 0]

\* truncation toward zero of a value in tenths
Trunc(t) == IF t >= 0 THEN t \div 10 ELSE -((-t) \div 10)

\* int(x): a float is truncated, text must be an integer literal
PyInt(v) ==
    CASE v.k = "int" -> [ok |-> TRUE, i |-> v.n]
      [] v.k = "real" -> [ok |-> TRUE, i |-> Trunc(v.n)]
      [] v.k = "str" /\ IsDigits(v.s) -> [ok |-> TRUE, i |-> DecValue(v.s)]
      [] OTHER -> [ok |-> FALSE, i |-> 0]

ErrDesign == "La designation doit etre une chaine non vide de maximum 100 caracteres."
ErrPrixPositif == "Le prix doit etre positif."
ErrPrixNombre == "Le prix doit etre un nombre."
ErrQuantitePositif == "La quantite doit etre un entier positif."
ErrQuantiteEntier == "La quantite doit etre un entier."

\* validate_vente: the list of error messages, all rules evaluated
validate_vente(design, prix, quantite) ==
    LET pf == PyFloat(prix)
        qi == PyInt(quantite)
    IN  (IF ~Truthy(design) \/ design.k # "str" \/ Len(design.s) > MaxDesignLen
         THEN <<ErrDesign>> ELSE <<>>)
        \o (IF ~pf.ok THEN <<ErrPrixNombre>>
            ELSE IF ~pf.nan /\ pf.t <= 0 THEN <<ErrPrixPositif>> ELSE <<>>)
        \o (IF ~qi.ok THEN <<ErrQuantiteEntier>>
            ELSE IF qi.i <= 0 THEN <<ErrQuantitePositif>> ELSE <<>>)

\* SQLite column affinity (the CREATE TABLE of init_db): what a bound Python
\* value is stored as in a REAL column ...
StoreReal(v) ==
    CASE v.k = "int" -> JReal(10 * v.n)
      [] v.k = "str" /\ IsDigits(v.s) -> JReal(10 * DecValue(v.s))
      [] OTHER -> v

\* ... and in an INTEGER column: a float with a fractional part stays a float,
\* text that is not a number stays text.
StoreInteger(v) ==
    CASE v.k = "real" /\ v.n % 10 = 0 -> JInt(v.n \div 10)
      [] v.k = "str" /\ IsDigits(v.s) -> JInt(DecValue(v.s))
      [] OTHER -> v

\* CURRENT_TIMESTAMP: the clock in whole seconds
CurrentTimestamp(tick) == tick \div TicksPerSec

----------------------------------------------------------------------------
(* Database helpers on table ventes *)

\* query_db('SELECT * FROM ventes WHERE design = ?', one=True)
VentesByDesign(vs, design) == {row \in vs : row.design = design}

\* query_db('SELECT * FROM ventes WHERE numProduit = ?', one=True)
VentesById(vs, id) == {row \in vs : row.numProduit = id}

NewVente(seq, design, prix, quantite, tick) ==
    [numProduit |-> seq + 1, design |-> design, prix |-> StoreReal(prix),
     quantite |-> StoreInteger(quantite),
     created_at |-> CurrentTimestamp(tick), updated_at |-> CurrentTimestamp(tick)]

\* The mutated INSERT: a table with a UNIQUE constraint on design.
InsertVenteUnique(vs, seq, design, prix, quantite, tick) ==
    IF VentesByDesign(vs, design) # {}
    THEN [ok |-> FALSE, ventes |-> vs, seq |-> seq]
    ELSE [ok |-> TRUE, seq |-> seq + 1,
          ventes |-> vs \cup {NewVente(seq, design, prix, quantite, tick)}]

\* execute_db('INSERT INTO ventes (design, prix, quantite) ...'): design carries
\* no UNIQUE constraint, both timestamps default to CURRENT_TIMESTAMP.
InsertVente(vs, seq, design, prix, quantite, tick) ==
    [ok |-> TRUE, seq |-> seq + 1,
     ventes |-> vs \cup {NewVente(seq, design, prix, quantite, tick)}]

\* The mutated UPDATE: updated_at is left alone.
UpdateVenteRowKeepStamp(vs, id, design, prix, quantite, tick) ==
    {IF row.numProduit = id
     THEN [row EXCEPT !.design = design, !.prix = StoreReal(prix),
                      !.quantite = StoreInteger(quantite)]
     ELSE row : row \in vs}

\* execute_db('UPDATE ventes SET design = ?, prix = ?, quantite = ?,
\*             updated_at = CURRENT_TIMESTAMP WHERE numProduit = ?')
UpdateVenteRow(vs, id, design, prix, quantite, tick) ==
    {IF row.numProduit = id
     THEN [row EXCEPT !.design = design, !.prix = StoreReal(prix),
                      !.quantite = StoreInteger(quantite),
                      !.updated_at = CurrentTimestamp(tick)]
     ELSE row : row \in vs}

\* execute_db('DELETE FROM ventes WHERE numProduit = ?')
DeleteVenteRow(vs, id) == {row \in vs : row.numProduit # id}

----------------------------------------------------------------------------
(* Route handlers, as functions of the request and the tables they read *)

Continue == Response("continue", 0, "", TRUE)

\* A credentials object (register/login JSON body, or HTTP basic auth);
\* <<>> stands for a missing or empty field.
Creds(username, password) == [username |-> username, password |-> password]
NoCreds == Creds(<<>>, <<>>)

\* The mutated register: no look-up of the username before the INSERT.
RegisterCheckNoLookup(us, data) ==
    IF data.username = <<>> \/ data.password = <<>>
    THEN Response("register", 400, MsgIncomplete, TRUE)
    ELSE IF ~UsernameOK(data.username)
    THEN Response("register", 400, MsgBadUsername, TRUE)
    ELSE IF Len(data.password) < MinPasswordLen
    THEN Response("register", 400, MsgBadPassword, TRUE)
    ELSE Continue

\* register, up to and including the SELECT: the response, or Continue
RegisterCheck(us, data) ==
    IF data.username = <<>> \/ data.password = <<>>
    THEN Response("register", 400, MsgIncomplete, TRUE)
    ELSE IF ~UsernameOK(data.username)
    THEN Response("register", 400, MsgBadUsername, TRUE)
    ELSE IF Len(data.password) < MinPasswordLen
    THEN Response("register", 400, MsgBadPassword, TRUE)
    ELSE IF UsersByName(us, data.username) # {}
    THEN Response("register", 409, MsgUserExists, TRUE)
    ELSE Continue

\* register, the INSERT and the response after it
RegisterResult(ins) ==
    IF ins.ok THEN Response("register", 201, MsgUserCreated, TRUE)
    ELSE InternalError("register")

\* login: the credentials used, from basic auth, else from the JSON body
LoginCreds(auth, data) ==
    IF auth.username = <<>> \/ auth.password = <<>> THEN data ELSE auth

\* The mutated login: an unknown username is reported as such.
LoginResultRevealing(us, auth, data, tick) ==
    LET cr == LoginCreds(auth, data)
        found == UsersByName(us, cr.username)
    IN  IF cr.username = <<>> \/ cr.password = <<>>
        THEN Response("login", 401, MsgAuthRequired, TRUE)
        ELSE IF found = {}
        THEN Response("login", 404, "Utilisateur inconnu!", TRUE)
        ELSE IF \A u \in found : ~check_password_hash(u.password, cr.password)
        THEN Response("login", 401, MsgBadCredentials, TRUE)
        ELSE [Response("login", 200, "", TRUE) EXCEPT
                 !.token = JwtEncode((CHOOSE u \in found : TRUE).id, tick)]

\* login: the response (with the token on success)
LoginResult(us, auth, data, tick) ==
    LET cr == LoginCreds(auth, data)
        found == UsersByName(us, cr.username)
    IN  IF cr.username = <<>> \/ cr.password = <<>>
        THEN Response("login", 401, MsgAuthRequired, TRUE)
        ELSE IF found = {}
                \/ \A u \in found : ~check_password_hash(u.password, cr.password)
        THEN Response("login", 401, MsgBadCredentials, TRUE)
        ELSE [Response("login", 200, "", TRUE) EXCEPT
                 !.token = JwtEncode((CHOOSE u \in found : TRUE).id, tick)]

MsgNoData == "Aucune donnee fournie!"
MsgInvalid == "Donnees invalides"
MsgDuplicate == "Un article avec cette designation existe deja!"
MsgCreated == "Vente creee avec succes!"
MsgNotFound == "Vente non trouvee!"
MsgUpdated == "Vente mise a jour avec succes!"
MsgDeleted == "Vente supprimee avec succes!"

\* A JSON body of create/update: the three fields, and whether it holds any
\* other key. request.get_json() of an absent or empty body is falsy.
Body(design, prix, quantite, extra) ==
    [design |-> design, prix |-> prix, quantite |-> quantite, extra |-> extra]

NoData(body) ==
    /\ body.design.k = "absent"
    /\ body.prix.k = "absent"
    /\ body.quantite.k = "absent"
    /\ ~body.extra

\* create_vente, up to and including the SELECT: the response, or Continue
CreateCheck(vs, body) ==
    IF NoData(body) THEN Response("create_vente", 400, MsgNoData, TRUE)
    ELSE IF validate_vente(Get(body.design), Get(body.prix), Get(body.quantite)) # <<>>
    THEN [Response("create_vente", 400, MsgInvalid, TRUE) EXCEPT
             !.errors = validate_vente(Get(body.design), Get(body.prix),
                                       Get(body.quantite))]
    ELSE IF VentesByDesign(vs, Get(body.design)) # {}
    THEN Response("create_vente", 409, MsgDuplicate, TRUE)
    ELSE Continue

\* create_vente, the response after the INSERT
CreateResult(ins) ==
    IF ins.ok THEN Response("create_vente", 201, MsgCreated, TRUE)
    ELSE InternalError("create_vente")

\* The mutated merge: prix falls back to the wrong column of the row.
MergeWrongColumn(row, body) ==
    [design |-> GetOr(body.design, row.design),
     prix |-> GetOr(body.prix, row.quantite),
     quantite |-> GetOr(body.quantite, row.quantite)]

\* update_vente: data.get(key, vente[key]) for the three fields
Merge(row, body) ==
    [design |-> GetOr(body.design, row.design),
     prix |-> GetOr(body.prix, row.prix),
     quantite |-> GetOr(body.quantite, row.quantite)]

\* update_vente before the UPDATE: the response, or Continue
UpdateCheck(vs, id, body) ==
    IF NoData(body) THEN Response("update_vente", 400, MsgNoData, TRUE)
    ELSE IF VentesById(vs, id) = {}
    THEN Response("update_vente", 404, MsgNotFound, TRUE)
    ELSE LET m == Merge(CHOOSE row \in VentesById(vs, id) : TRUE, body)
         IN  IF validate_vente(m.design, m.prix, m.quantite) # <<>>
             THEN [Response("update_vente", 400, MsgInvalid, TRUE) EXCEPT
                      !.errors = validate_vente(m.design, m.prix, m.quantite)]
             ELSE Continue

----------------------------------------------------------------------------
(* Requests *)

NoBody == Body(Absent, Absent, Absent, FALSE)

\* A request: the route, the Authorization header of a sales-item request,
\* the <num_produit> of the URL, the JSON body of create/update, and the
\* basic-auth and JSON credentials of register/login.
Request(op, hdr, id, body, auth, data) ==
    [op |-> op, hdr |-> hdr, id |-> id, body |-> body, auth |-> auth, data |-> data]

NoRequest == Request("none", NoHeader, 0, NoBody, NoCreds, NoCreds)

Send(c, r) == req' = [req EXCEPT ![c] = r]

Reply(c, r) == resp' = [resp EXCEPT ![c] = r]

----------------------------------------------------------------------------
(* Actions: one request handled from start to finish *)

\* POST /api/register
register(c, data, salt) ==
    /\ pc[c].st = "idle"
    /\ Send(c, Request("register", NoHeader, 0, NoBody, NoCreds, data))
    /\ LET pre == RegisterCheck(users, data)
           ins == InsertUser(users, userSeq, data.username,
                             generate_password_hash(data.password, salt))
       IN  IF pre # Continue
           THEN Reply(c, pre) /\ UNCHANGED <<users, userSeq>>
           ELSE /\ userSeq < MaxUsers
                /\ users' = ins.users
                /\ userSeq' = ins.seq
                /\ Reply(c, RegisterResult(ins))
    /\ UNCHANGED <<ventes, venteSeq, now, issued, pc>>

\* POST /api/login
login(c, auth, data) ==
    /\ pc[c].st = "idle"
    /\ Send(c, Request("login", NoHeader, 0, NoBody, auth, data))
    /\ LET r == LoginResult(users, auth, data, now)
           rec == [token |-> r.token, iat |-> now]
       IN  IF r.status = 200
           THEN /\ rec \in issued \/ Cardinality(issued) < MaxTokens
                /\ issued' = issued \cup {rec}
                /\ Reply(c, r)
           ELSE Reply(c, r) /\ UNCHANGED issued
    /\ UNCHANGED <<users, userSeq, ventes, venteSeq, now, pc>>

\* GET /api/ventes
get_all_ventes(c, hdr, atExp) ==
    /\ pc[c].st = "idle"
    /\ Send(c, Request("get_all_ventes", hdr, 0, NoBody, NoCreds, NoCreds))
    /\ LET a == TokenRequired("get_all_ventes", hdr, users, now, atExp)
       IN  Reply(c, IF ~a.pass THEN a.resp
                    ELSE Response("get_all_ventes", 200, "", TRUE))
    /\ UNCHANGED <<users, userSeq, ventes, venteSeq, now, issued, pc>>

\* GET /api/ventes/<num_produit>
get_one_vente(c, hdr, atExp, id) ==
    /\ pc[c].st = "idle"
    /\ Send(c, Request("get_one_vente", hdr, id, NoBody, NoCreds, NoCreds))
    /\ LET a == TokenRequired("get_one_vente", hdr, users, now, atExp)
       IN  Reply(c, IF ~a.pass THEN a.resp
                    ELSE IF VentesById(ventes, id) = {}
                    THEN Response("get_one_vente", 404, MsgNotFound, TRUE)
                    ELSE Response("get_one_vente", 200, "", TRUE))
    /\ UNCHANGED <<users, userSeq, ventes, venteSeq, now, issued, pc>>

\* POST /api/ventes
create_vente(c, hdr, atExp, body) ==
    /\ pc[c].st = "idle"
    /\ Send(c, Request("create_vente", hdr, 0, body, NoCreds, NoCreds))
    /\ LET a == TokenRequired("create_vente", hdr, users, now, atExp)
           pre == CreateCheck(ventes, body)
           ins == InsertVente(ventes, venteSeq, Get(body.design), Get(body.prix),
                              Get(body.quantite), now)
       IN  IF ~a.pass
           THEN Reply(c, a.resp) /\ UNCHANGED <<ventes, venteSeq>>
           ELSE IF pre # Continue
           THEN Reply(c, pre) /\ UNCHANGED <<ventes, venteSeq>>
           ELSE /\ venteSeq < MaxVentes
                /\ ventes' = ins.ventes
                /\ venteSeq' = ins.seq
                /\ Reply(c, CreateResult(ins))
    /\ UNCHANGED <<users, userSeq, now, issued, pc>>

\* PUT /api/ventes/<num_produit>
update_vente(c, hdr, atExp, id, body) ==
    /\ pc[c].st = "idle"
    /\ Send(c, Request("update_vente", hdr, id, body, NoCreds, NoCreds))
    /\ LET a == TokenRequired("update_vente", hdr, users, now, atExp)
           pre == UpdateCheck(ventes, id, body)
           m == Merge(CHOOSE row \in VentesById(ventes, id) : TRUE, body)
       IN  IF ~a.pass
           THEN Reply(c, a.resp) /\ UNCHANGED ventes
           ELSE IF pre # Continue
           THEN Reply(c, pre) /\ UNCHANGED ventes
           ELSE /\ ventes' = UpdateVenteRow(ventes, id, m.design, m.prix,
                                            m.quantite, now)
                /\ Reply(c, Response("update_vente", 200, MsgUpdated, TRUE))
    /\ UNCHANGED <<users, userSeq, venteSeq, now, issued, pc>>

\* DELETE /api/ventes/<num_produit>
delete_vente(c, hdr, atExp, id) ==
    /\ pc[c].st = "idle"
    /\ Send(c, Request("delete_vente", hdr, id, NoBody, NoCreds, NoCreds))
    /\ LET a == TokenRequired("delete_vente", hdr, users, now, atExp)
       IN  IF ~a.pass
           THEN Reply(c, a.resp) /\ UNCHANGED ventes
           ELSE IF VentesById(ventes, id) = {}
           THEN Reply(c, Response("delete_vente", 404, MsgNotFound, TRUE))
                /\ UNCHANGED ventes
           ELSE /\ ventes' = DeleteVenteRow(ventes, id)
                /\ Reply(c, Response("delete_vente", 200, MsgDeleted, TRUE))
    /\ UNCHANGED <<users, userSeq, venteSeq, now, issued, pc>>

\* The instants explored: the first NearSecs seconds of each of the days
\* 0..MaxDays.
InWindow(tick) ==
    /\ tick \div DayTicks <= MaxDays
    /\ tick % DayTicks < NearSecs * TicksPerSec

\* The clock moves forward by d ticks
Advance(d) ==
    /\ InWindow(now + d)
    /\ now' = now + d
    /\ UNCHANGED <<users, userSeq, ventes, venteSeq, issued, pc, req, resp>>

----------------------------------------------------------------------------
(* Actions of concurrent requests: register and create_vente each in two   *)
(* steps, the SELECT of the pre-check and the INSERT, every request on its *)
(* own connection (get_db) with no transaction spanning the two.           *)

register_select(c, data, salt) ==
    /\ pc[c].st = "idle"
    /\ Send(c, Request("register", NoHeader, 0, NoBody, NoCreds, data))
    /\ LET pre == RegisterCheck(users, data)
       IN  IF pre # Continue
           THEN Reply(c, pre) /\ UNCHANGED pc
           ELSE /\ pc' = [pc EXCEPT ![c] =
                            [Idle EXCEPT !.st = "register",
                                         !.username = data.username,
                                         !.hash = generate_password_hash(data.password, salt)]]
                /\ Reply(c, NoResponse)
    /\ UNCHANGED <<users, userSeq, ventes, venteSeq, now, issued>>

register_insert(c) ==
    /\ pc[c].st = "register"
    /\ LET ins == InsertUser(users, userSeq, pc[c].username, pc[c].hash)
       IN  /\ ins.ok => userSeq < MaxUsers
           /\ users' = ins.users
           /\ userSeq' = ins.seq
           /\ Reply(c, RegisterResult(ins))
    /\ pc' = [pc EXCEPT ![c] = Idle]
    /\ UNCHANGED <<ventes, venteSeq, now, issued, req>>

create_select(c, hdr, atExp, body) ==
    /\ pc[c].st = "idle"
    /\ Send(c, Request("create_vente", hdr, 0, body, NoCreds, NoCreds))
    /\ LET a == TokenRequired("create_vente", hdr, users, now, atExp)
           pre == CreateCheck(ventes, body)
       IN  IF ~a.pass
           THEN Reply(c, a.resp) /\ UNCHANGED pc
           ELSE IF pre # Continue
           THEN Reply(c, pre) /\ UNCHANGED pc
           ELSE /\ pc' = [pc EXCEPT ![c] =
                            [Idle EXCEPT !.st = "create",
                                         !.design = Get(body.design),
                                         !.prix = Get(body.prix),
                                         !.quantite = Get(body.quantite)]]
                /\ Reply(c, NoResponse)
    /\ UNCHANGED <<users, userSeq, ventes, venteSeq, now, issued>>

create_insert(c) ==
    /\ pc[c].st = "create"
    /\ LET ins == InsertVente(ventes, venteSeq, pc[c].design, pc[c].prix,
                              pc[c].quantite, now)
       IN  /\ ins.ok => venteSeq < MaxVentes
           /\ ventes' = ins.ventes
           /\ venteSeq' = ins.seq
           /\ Reply(c, CreateResult(ins))
    /\ pc' = [pc EXCEPT ![c] = Idle]
    /\ UNCHANGED <<users, userSeq, now, issued, req>>

----------------------------------------------------------------------------
(* Inputs *)

Bob == <<"b", "o", "b">>
Amy == <<"a", "m", "y">>
ShortName == <<"a", "l">>
Pw1 == <<"p", "a", "s", "s", "w", "o", "r", "d">>
Pw2 == <<"l", "e", "t", "m", "e", "i", "n", "1", "2">>
ShortPw == <<"p", "a", "s", "s">>

DesignA == JStr(<<"A">>)
DesignB == JStr(<<"B">>)
LongDesign == JStr([i \in 1..(MaxDesignLen + 1) |-> "x"])

\* The Authorization headers a client may send: none, another scheme, a
\* malformed token, a token with a wrong signature, a token login returned,
\* and a token signed with SECRET_KEY whose user_id is in no row of users.
GhostUserId == MaxUsers + 1
Garbage == [kind |-> "garbage", sig |-> "", user_id |-> 0, exp |-> 0]
GhostToken ==
    [kind |-> "jwt", sig |-> "good", user_id |-> GhostUserId,
     exp |-> (MaxDays + 2) * TokenLifetime]

IssuedHeaders == {Bearer(r.token) : r \in issued}

ForgedHeaders ==
    {Bearer([r.token EXCEPT !.sig = "bad"]) : r \in issued}

VenteIds == 1..MaxVentes

Init ==
    /\ users = {}
    /\ userSeq = 0
    /\ ventes = {}
    /\ venteSeq = 0
    /\ now = 0
    /\ issued = {}
    /\ pc = [c \in Clients |-> Idle]
    /\ req = [c \in Clients |-> NoRequest]
    /\ resp = [c \in Clients |-> NoResponse]

----------------------------------------------------------------------------
(* Spec: requests one at a time, the sales-item bodies varied *)

VenteBodies ==
    {Body(DesignA, JInt(5), JInt(1), FALSE),
     Body(DesignB, JInt(5), JInt(1), FALSE),
     Body(LongDesign, JInt(5), JInt(1), FALSE),
     NoBody,
     Body(Absent, Absent, Absent, TRUE),
     Body(DesignA, Absent, Absent, FALSE),
     Body(Null, Absent, Absent, FALSE),
     Body(Absent, JStr(NaNText), Absent, FALSE),
     Body(Absent, JInt(0), Absent, FALSE),
     Body(Absent, Absent, JReal(25), FALSE),
     Body(Absent, Absent, JReal(5), FALSE)}

\* The clock never reaches a token's "exp" here (Advance moves it by whole
\* seconds within the first NearSecs seconds), so the release-dependent
\* comparison at "exp" is not exercised: jwt.decode is taken at its strict one.
SeqHeaders == {NoHeader} \cup IssuedHeaders

Next ==
    \E c \in {1} :
        \/ register(c, Creds(Bob, Pw1), "s1")
        \/ login(c, NoCreds, Creds(Bob, Pw1))
        \/ \E hdr \in SeqHeaders : get_all_ventes(c, hdr, TRUE)
        \/ \E hdr \in SeqHeaders, id \in VenteIds : get_one_vente(c, hdr, TRUE, id)
        \/ \E hdr \in SeqHeaders, body \in VenteBodies :
              create_vente(c, hdr, TRUE, body)
        \/ \E hdr \in SeqHeaders, id \in VenteIds, body \in VenteBodies :
              update_vente(c, hdr, TRUE, id, body)
        \/ \E hdr \in SeqHeaders, id \in VenteIds : delete_vente(c, hdr, TRUE, id)
        \/ Advance(TicksPerSec)

Spec == Init /\ [][Next]_vars

----------------------------------------------------------------------------
(* Claims checked under Spec *)

\* C3 (as claimed): whatever sequence of create, update and delete requests
\* ran one at a time, no two rows of ventes have the same designation.
C3_DesignationUnique ==
    \A r1 \in ventes, r2 \in ventes : r1.design = r2.design => r1 = r2

IsPositiveNumber(cell) == cell.k \in {"int", "real"} /\ cell.n > 0

IsPositiveInteger(cell) == cell.k = "int" /\ cell.n > 0

\* C4 (as claimed): every row of ventes has a price > 0 and a quantity that is
\* a positive integer.
C4_PositivePriceAndQuantity ==
    \A row \in ventes :
        IsPositiveNumber(row.prix) /\ IsPositiveInteger(row.quantite)

\* A step in which client 1's request to route op is handled from start to
\* finish (every such action records the request; the clock stands still)
Handled(op) == now' = now /\ req'[1].op = op

\* The item a request to /api/ventes/<num_produit> names, in a table
Target(vs) == VentesById(vs, req'[1].id)

\* C5 (as claimed): after every successful update the item's updated_at is
\* strictly later than its created_at.
C5_UpdatedStrictlyLater ==
    [][(Handled("update_vente") /\ resp'[1].status = 200) =>
          \A row \in Target(ventes') : row.updated_at > row.created_at]_vars

\* C5 (amended): after every successful update the item's updated_at is the
\* clock's current whole second, which is not earlier than its created_at.
C5_UpdatedIsCurrentSecond ==
    [][(Handled("update_vente") /\ resp'[1].status = 200) =>
          /\ Target(ventes') # {}
          /\ \A row \in Target(ventes') :
                /\ row.updated_at = CurrentTimestamp(now)
                /\ row.updated_at >= row.created_at]_vars

\* C5 witness: an update was answered 200 and the item's updated_at has moved
\* past its created_at.
C5_Witness ==
    /\ req[1].op = "update_vente"
    /\ resp[1].status = 200
    /\ \E row \in VentesById(ventes, req[1].id) : row.updated_at > row.created_at

Others(vs, id) == {row \in vs : row.numProduit # id}

\* C6: an update request for an existing item leaves every field its body
\* omits, the item's numProduit and created_at, and every other item as they
\* were.
C6_UpdateFrame ==
    [][(Handled("update_vente") /\ Target(ventes) # {}) =>
          LET body == req'[1].body
          IN  /\ Others(ventes', req'[1].id) = Others(ventes, req'[1].id)
              /\ Cardinality(Target(ventes')) = 1
              /\ \A old \in Target(ventes), new \in Target(ventes') :
                    /\ new.created_at = old.created_at
                    /\ body.design.k = "absent" => new.design = old.design
                    /\ body.prix.k = "absent" => new.prix = old.prix
                    /\ body.quantite.k = "absent" => new.quantite = old.quantite]_vars

\* C6 witness: an update whose body holds only quantite was answered 200 with
\* two items stored, and the item still has the price it was created with.
C6_Witness ==
    /\ req[1].op = "update_vente"
    /\ req[1].body = Body(Absent, Absent, JReal(25), FALSE)
    /\ resp[1].status = 200
    /\ Cardinality(ventes) = 2
    /\ \E row \in VentesById(ventes, req[1].id) :
          row.quantite = JReal(25) /\ row.prix = JReal(50)

----------------------------------------------------------------------------
(* SpecAuth: requests one at a time, the credentials, the Authorization    *)
(* headers and the clock varied; the clock may also jump a whole token     *)
(* lifetime.                                                               *)

RegisterInputs ==
    {Creds(Bob, Pw1), Creds(Bob, Pw2), Creds(Bob, ShortPw), Creds(Bob, <<>>),
     Creds(ShortName, Pw1)}

LoginInputs == {NoCreds, Creds(Bob, Pw1), Creds(Bob, Pw2), Creds(Amy, Pw1)}

BasicAuthInputs == {NoCreds, Creds(Bob, Pw1)}

AllHeaders ==
    {NoHeader, [scheme |-> "Basic", token |-> Garbage], Bearer(Garbage),
     Bearer(GhostToken)} \cup IssuedHeaders \cup ForgedHeaders

AuthCreateBody == Body(DesignA, JStr(<<"5">>), JInt(1), FALSE)
AuthUpdateBody == Body(Absent, Absent, JInt(2), FALSE)

NextAuth ==
    \E c \in {1} :
        \/ \E data \in RegisterInputs, salt \in Salts : register(c, data, salt)
        \/ \E auth \in BasicAuthInputs, data \in LoginInputs : login(c, auth, data)
        \/ \E hdr \in AllHeaders, atExp \in BOOLEAN : get_all_ventes(c, hdr, atExp)
        \/ \E hdr \in AllHeaders, atExp \in BOOLEAN : get_one_vente(c, hdr, atExp, 1)
        \/ \E hdr \in AllHeaders, atExp \in BOOLEAN :
              create_vente(c, hdr, atExp, AuthCreateBody)
        \/ \E hdr \in AllHeaders, atExp \in BOOLEAN :
              update_vente(c, hdr, atExp, 1, AuthUpdateBody)
        \/ \E hdr \in AllHeaders, atExp \in BOOLEAN : delete_vente(c, hdr, atExp, 1)
        \/ Advance(1)
        \/ Advance(DayTicks)

SpecAuth == Init /\ [][NextAuth]_vars

----------------------------------------------------------------------------
(* Claims checked under SpecAuth *)

VenteOps ==
    {"get_all_ventes", "get_one_vente", "create_vente", "update_vente",
     "delete_vente"}

\* A step in which a sales-item request of client 1 is handled
VenteHandled == now' = now /\ req'[1].op \in VenteOps

\* The 401 of token_required for a token it refuses
Refused(r) ==
    /\ r.status = 401
    /\ r.msg = MsgTokenInvalide
    /\ ~r.ran

\* C1 (as claimed): a sales-item request whose bearer token is correctly
\* signed and unexpired but names a user id in no row of users is answered
\* 401 'Token invalide!' without running the handler or touching ventes.
C1_UnknownUserRefused ==
    [][LET tok == req'[1].hdr.token
       IN  (/\ VenteHandled
            /\ req'[1].hdr.scheme = "Bearer"
            /\ tok.kind = "jwt"
            /\ tok.sig = "good"
            /\ CurrentTimestamp(now) < tok.exp
            /\ UsersById(users, tok.user_id) = {}) =>
               (Refused(resp'[1]) /\ ventes' = ventes)]_vars

\* C2 (as claimed): a token login issued at tick iat is accepted on every
\* sales-item route strictly before iat + 24 h and refused with 401 'Token
\* invalide!' at every time after iat + 24 h.
C2_ValidExactly24h ==
    [][\A r \in issued :
          (VenteHandled /\ req'[1].hdr = Bearer(r.token)) =>
              /\ now < r.iat + DayTicks => resp'[1].ran
              /\ now > r.iat + DayTicks => Refused(resp'[1])]_vars

\* C2 (amended): the token is accepted on every sales-item route while the
\* clock's whole second is before the whole second of its issue plus 24 h,
\* and refused with 401 'Token invalide!' once the clock's whole second is
\* past it; within that one second the answer is the PyJWT release's.
C2_ValidUntilExpSecond ==
    [][\A r \in issued :
          (VenteHandled /\ req'[1].hdr = Bearer(r.token)) =>
              LET expSec == CurrentTimestamp(r.iat) + TokenLifetime
              IN  /\ CurrentTimestamp(now) < expSec => resp'[1].ran
                  /\ CurrentTimestamp(now) > expSec => Refused(resp'[1])]_vars

\* C2 witness: a token login issued more than 24 h ago has just been refused
\* on the delete route.
C2_Witness ==
    \E r \in issued :
        /\ req[1].op = "delete_vente"
        /\ req[1].hdr = Bearer(r.token)
        /\ now > r.iat + DayTicks
        /\ Refused(resp[1])

\* C8: a register request with a well-formed username and password answers
\* 201 and stores the password's hash when the username is new, and answers
\* 409 leaving the users table as it was when the username is taken.
C8_RegisterTwice ==
    [][LET data == req'[1].data
       IN  (/\ now' = now
            /\ req'[1].op = "register"
            /\ UsernameOK(data.username)
            /\ Len(data.password) >= MinPasswordLen) =>
               IF UsersByName(users, data.username) = {}
               THEN /\ resp'[1].status = 201
                    /\ \E row \in users' :
                          /\ row.username = data.username
                          /\ check_password_hash(row.password, data.password)
                          /\ users' \ {row} = users
               ELSE /\ resp'[1].status = 409
                    /\ resp'[1].msg = MsgUserExists
                    /\ users' = users]_vars

\* C8 witness: bob, registered with one password, has just been refused with
\* 409 when registering with another, and the stored hash is the first one's.
C8_Witness ==
    /\ req[1].op = "register"
    /\ req[1].data = Creds(Bob, Pw2)
    /\ resp[1].status = 409
    /\ \E row \in users :
          row.username = Bob /\ check_password_hash(row.password, Pw1)

\* C9: a login whose username is unknown and a login whose password is wrong
\* get the one response 401 'Identifiants incorrects!' without a token, and
\* change nothing.
C9_LoginFailuresAlike ==
    [][LET cr == LoginCreds(req'[1].auth, req'[1].data)
           found == UsersByName(users, cr.username)
       IN  (/\ now' = now
            /\ req'[1].op = "login"
            /\ cr.username # <<>>
            /\ cr.password # <<>>
            /\ \/ found = {}
               \/ \A u \in found : ~check_password_hash(u.password, cr.password)) =>
               /\ resp'[1] = Response("login", 401, MsgBadCredentials, TRUE)
               /\ UNCHANGED <<users, userSeq, ventes, venteSeq, issued>>]_vars

\* C9 witness: bob exists and a login as bob with a wrong password has just
\* been answered 401 'Identifiants incorrects!'.
C9_Witness ==
    /\ req[1].op = "login"
    /\ LoginCreds(req[1].auth, req[1].data) = Creds(Bob, Pw2)
    /\ \E row \in users :
          row.username = Bob /\ ~check_password_hash(row.password, Pw2)
    /\ resp[1] = Response("login", 401, MsgBadCredentials, TRUE)

----------------------------------------------------------------------------
(* SpecConc: requests of several clients interleaved between the SELECT    *)
(* and the INSERT of register and create_vente.                            *)

ConcRegisterInputs == {Creds(Bob, Pw1), Creds(Bob, Pw2), Creds(Amy, Pw1)}

ConcBodies ==
    {Body(DesignA, JInt(5), JInt(1), FALSE), Body(DesignB, JInt(5), JInt(1), FALSE)}

NextConc ==
    \E c \in Clients :
        \/ \E data \in ConcRegisterInputs : register_select(c, data, "s1")
        \/ register_insert(c)
        \/ login(c, NoCreds, Creds(Bob, Pw1))
        \/ \E hdr \in SeqHeaders, body \in ConcBodies : create_select(c, hdr, TRUE, body)
        \/ create_insert(c)

SpecConc == Init /\ [][NextConc]_vars

----------------------------------------------------------------------------
(* Claims checked under SpecConc *)

\* A step taken by client c (each of its steps changes its request in flight,
\* its request or its response, or changes nothing at all)
Acted(c) == <<pc[c], req[c], resp[c]>>' # <<pc[c], req[c], resp[c]>>

\* C7: the INSERT of a create request that passed its pre-check always adds a
\* row and answers 201, whether or not another request has stored the same
\* designation since (so two racing creates both succeed); a create request
\* whose pre-check runs when the designation is stored answers 409 and
\* inserts nothing.
C7_CreateRace ==
    [][\A c \in Clients :
          /\ (pc[c].st = "create" /\ pc'[c].st = "idle") =>
                /\ resp'[c].status = 201
                /\ Cardinality(ventes') = Cardinality(ventes) + 1
                /\ \E row \in ventes' \ ventes : row.design = pc[c].design
          /\ (/\ Acted(c)
              /\ pc[c].st = "idle"
              /\ req'[c].op = "create_vente"
              /\ resp'[c].status # 401
              /\ VentesByDesign(ventes, Get(req'[c].body.design)) # {}) =>
                /\ resp'[c].status = 409
                /\ pc'[c].st = "idle"
                /\ ventes' = ventes]_vars

\* C7 witness: both clients' creates of one designation were answered 201 and
\* two rows hold that designation.
C7_Witness ==
    /\ req[1].op = "create_vente" /\ resp[1].status = 201
    /\ req[2].op = "create_vente" /\ resp[2].status = 201
    /\ req[1].body.design = req[2].body.design
    /\ Cardinality(VentesByDesign(ventes, req[1].body.design)) = 2

\* C10: no two rows of users ever share a username; the INSERT of a register
\* request that passed its pre-check answers 201 when the username is still
\* free and otherwise fails on the UNIQUE constraint: 500, nothing inserted.
C10_UsernameUnique ==
    /\ [](\A r1 \in users, r2 \in users : r1.username = r2.username => r1 = r2)
    /\ [][\A c \in Clients :
             (pc[c].st = "register" /\ pc'[c].st = "idle") =>
                 IF UsersByName(users, pc[c].username) = {}
                 THEN /\ resp'[c].status = 201
                      /\ Cardinality(users') = Cardinality(users) + 1
                 ELSE /\ resp'[c] = InternalError("register")
                      /\ users' = users]_vars

\* C10 witness: two registrations of one username both passed the pre-check;
\* client 1's INSERT was answered 201 and client 2's 500.
C10_Witness ==
    /\ req[1].op = "register" /\ req[2].op = "register"
    /\ req[1].data.username = req[2].data.username
    /\ resp[1].status = 201
    /\ resp[2] = InternalError("register")

====
